---------------------------- MODULE Spec2Model ----------------------------
(***************************************************************************)
(* A model of the embedded-gfx core: the triangle rasterizer of            *)
(* src/src/draw.rs and the geometry / mesh transform state of              *)
(* src/src/mesh.rs.                                                        *)
(*                                                                         *)
(* Four specifications share the module:                                   *)
(*   SpecDraw   one draw(ColoredTriangle) call on a recording framebuffer  *)
(*   SpecNew    the construction of a K3dMesh over a Geometry              *)
(*   SpecMesh   a constructed K3dMesh through calls of its methods         *)
(*   SpecEdges  Geometry::lines_from_faces on a face list                  *)
(***************************************************************************)
EXTENDS Integers, Sequences, FiniteSets

VARIABLES
    fb,         \* size of the framebuffer's bounding box (top_left = (0,0))
    vertices,   \* the three vertices handed to draw, in the order passed
    pc,         \* "call" before the draw call, "returned" / "panicked" after
    cull,       \* which early return the call took ("none" when it rasterized)
    drawn,      \* one record per fb.draw_iter call of the draw call, in order
    row_hi,     \* highest index of pixel_row written during the call (-1: none)
    span,       \* widest clamped scanline span (in pixels) the call computed
    panic,      \* the panic that ended the call ("none" when it returned)
    geometry,   \* the Geometry handed to a K3dMesh constructor
    mesh,       \* the K3dMesh value (NoMesh before construction or after a panic)
    op,         \* the K3dMesh operation performed last
    ret,        \* the matrix the last get_model_matrix returned (NoMatrix otherwise)
    composed,   \* whether the last operation called Similarity3::to_homogeneous
    ops,        \* number of operations performed on the mesh so far
    faces,      \* the face list handed to Geometry::lines_from_faces
    set,        \* lines_from_faces' FnvIndexSet, entries in insertion order
    face_i,     \* position of lines_from_faces' loop over faces (1-based)
    lines       \* what lines_from_faces returned (NoLines before it returns)

drawVars == <<fb, vertices, pc, cull, drawn, row_hi, span, panic>>
meshVars == <<geometry, mesh, op, ret, composed, ops>>
edgeVars == <<faces, set, face_i, lines>>

vars == <<drawVars, meshVars, edgeVars>>

(***************************************************************************)
(* Integer helpers with Rust's i32 semantics (truncation toward zero).     *)
(***************************************************************************)
Abs(n) == IF n < 0 THEN -n ELSE n
Min(a, b) == IF a < b THEN a ELSE b
Max(a, b) == IF a > b THEN a ELSE b

\* i32 `/` for a positive divisor: truncates toward zero
TruncDiv(a, b) == IF a >= 0 THEN a \div b ELSE -((-a) \div b)
\* i32 `%` for a positive divisor: the remainder has the dividend's sign
TruncRem(a, b) == a - b * TruncDiv(a, b)

\* i32::clamp(lo, hi)
Clamp(v, lo, hi) == IF v < lo THEN lo ELSE IF v > hi THEN hi ELSE v

Pt(px, py) == [x |-> px, y |-> py]

(***************************************************************************)
(* draw.rs                                                                 *)
(***************************************************************************)
MAX_ROW_WIDTH == 100

is_backfacing(a, b, c) ==
    LET dx1 == b.x - a.x
        dy1 == b.y - a.y
        dx2 == c.x - a.x
        dy2 == c.y - a.y
    IN  dx1 * dy2 - dy1 * dx2 <= 0

\* vertices.sort_unstable_by(|a, b| a.y.cmp(&b.y)) on a slice of three: the
\* standard library sorts a slice this short by insertion, shifting an element
\* left only past elements of strictly greater y, so equal y keep their order.
sort_unstable_by_y(v) ==
    LET s1 == IF v[2].y < v[1].y THEN <<v[2], v[1], v[3]>> ELSE v
    IN  IF s1[3].y < s1[2].y
        THEN IF s1[3].y < s1[1].y
             THEN <<s1[3], s1[1], s1[2]>>
             ELSE <<s1[1], s1[3], s1[2]>>
        ELSE s1

\* Point derives Ord (x first, then y); p.max(q) is Ord::max
Point_max(p, q) ==
    IF p.x > q.x \/ (p.x = q.x /\ p.y > q.y) THEN p ELSE q

\* Rectangle::new(top_left, size)
Rectangle_new(tl, w, h) == [top_left |-> tl, w |-> w, h |-> h]

\* Rectangle::with_corners
Rectangle_with_corners(c1, c2) ==
    Rectangle_new(Pt(Min(c1.x, c2.x), Min(c1.y, c2.y)),
                  Abs(c2.x - c1.x) + 1, Abs(c2.y - c1.y) + 1)

is_zero_sized(r) == r.w = 0 \/ r.h = 0

\* Rectangle::bottom_right: None (here: a record with some = FALSE) when zero sized
bottom_right(r) ==
    IF is_zero_sized(r)
    THEN [some |-> FALSE, p |-> Pt(0, 0)]
    ELSE [some |-> TRUE, p |-> Pt(r.top_left.x + r.w - 1, r.top_left.y + r.h - 1)]

Rectangle_contains(r, p) ==
    /\ bottom_right(r).some
    /\ p.x >= r.top_left.x /\ p.y >= r.top_left.y
    /\ p.x <= bottom_right(r).p.x /\ p.y <= bottom_right(r).p.y

\* overlap of two inclusive ranges
overlaps(lo1, hi1, lo2, hi2) == Max(lo1, lo2) <= Min(hi1, hi2)

\* Rectangle::intersection
intersection(self, other) ==
    LET ob == bottom_right(other)
        sb == bottom_right(self)
        zero == Rectangle_new(Pt(0, 0), 0, 0)
    IN  IF ob.some /\ sb.some
        THEN IF /\ overlaps(self.top_left.x, sb.p.x, other.top_left.x, ob.p.x)
                /\ overlaps(self.top_left.y, sb.p.y, other.top_left.y, ob.p.y)
             THEN Rectangle_with_corners(
                      Pt(Max(self.top_left.x, other.top_left.x),
                         Max(self.top_left.y, other.top_left.y)),
                      Pt(Min(sb.p.x, ob.p.x), Min(sb.p.y, ob.p.y)))
             ELSE zero
        ELSE IF ob.some /\ ~sb.some
        THEN IF Rectangle_contains(other, self.top_left) THEN self ELSE zero
        ELSE IF ~ob.some /\ sb.some
        THEN IF Rectangle_contains(self, other.top_left) THEN other ELSE zero
        ELSE zero

\* the rectangle draw compares against the screen: with_corners(p1, p1.max(p2).max(p3))
triangle_bounds(p1, p2, p3) ==
    Rectangle_with_corners(p1, Point_max(Point_max(p1, p2), p3))

screen_rect(f) == Rectangle_new(Pt(0, 0), f.w, f.h)

Interpolator_new(p_start, p_end) ==
    [x |-> p_start.x, dx |-> p_end.x - p_start.x, dy |-> p_end.y - p_start.y,
     error |-> 0]

\* Interpolator::next: the interpolator after the call; its x is the value returned
Interpolator_next(it) ==
    LET x1 == it.x + TruncDiv(it.dx, it.dy)
        e1 == it.error + TruncRem(it.dx, it.dy)
    IN  IF e1 >= it.dy
        THEN [it EXCEPT !.x = x1 + 1, !.error = e1 - it.dy]
        ELSE [it EXCEPT !.x = x1, !.error = e1]

\* One half of fill_triangle: the scanline loop for y in y..=last with the two
\* interpolators a and b.  st carries what the call has done so far.  A span
\* wider than pixel_row panics at index MAX_ROW_WIDTH, after MAX_ROW_WIDTH
\* in-range writes and before the row's draw_iter.
RECURSIVE scan_rows(_, _, _, _, _, _, _, _)
scan_rows(half, a, b, y, last, min_x, max_x, st) ==
    IF y > last \/ st.panic # "none" THEN st
    ELSE
        LET a1 == Interpolator_next(a)
            b1 == Interpolator_next(b)
            ax == a1.x
            bx == b1.x
            lo == IF ax < bx THEN ax ELSE bx
            hi == IF ax < bx THEN bx ELSE ax
            start_x == Clamp(lo, min_x, max_x)
            end_x == Clamp(hi, min_x, max_x)
            n == end_x - start_x + 1
        IN  IF n > MAX_ROW_WIDTH
            THEN [st EXCEPT !.panic = "index_out_of_bounds",
                            !.row_hi = MAX_ROW_WIDTH - 1,
                            !.span = Max(@, n)]
            ELSE scan_rows(half, a1, b1, y + 1, last, min_x, max_x,
                     [st EXCEPT
                        !.drawn = Append(@, [half |-> half, y |-> y,
                                             start_x |-> start_x, end_x |-> end_x]),
                        !.row_hi = Max(@, n - 1),
                        !.span = Max(@, n)])

fill_triangle(p1, p2, p3, f) ==
    LET area == (p2.x - p1.x) * (p3.y - p1.y) - (p2.y - p1.y) * (p3.x - p1.x)
        st0 == [cull |-> "none", drawn |-> <<>>, row_hi |-> -1, span |-> 0,
                panic |-> "none"]
        br == bottom_right(screen_rect(f))
    IN  IF area <= 0 THEN [st0 EXCEPT !.cull = "area"]
        ELSE IF ~br.some THEN [st0 EXCEPT !.panic = "unwrap_none"]
        ELSE
          LET min_x == 0
              max_x == br.p.x
              top == IF p2.y - p1.y > 0
                     THEN scan_rows("top", Interpolator_new(p1, p2),
                                    Interpolator_new(p1, p3),
                                    p1.y, p2.y - 1, min_x, max_x, st0)
                     ELSE st0
          IN  IF p3.y - p2.y > 0
              THEN scan_rows("bottom", Interpolator_new(p2, p3),
                             Interpolator_new(p1, p3),
                             p2.y, p3.y, min_x, max_x, top)
              ELSE top

\* draw(DrawPrimitive::ColoredTriangle(vertices, color), fb)
draw(v, f) ==
    LET s == sort_unstable_by_y(v)
        p1 == s[1]
        p2 == s[2]
        p3 == s[3]
        st0 == [cull |-> "none", drawn |-> <<>>, row_hi |-> -1, span |-> 0,
                panic |-> "none"]
    IN  IF is_backfacing(p1, p2, p3) THEN [st0 EXCEPT !.cull = "backface"]
        ELSE IF is_zero_sized(intersection(screen_rect(f), triangle_bounds(p1, p2, p3)))
        THEN [st0 EXCEPT !.cull = "bounds"]
        ELSE fill_triangle(p1, p2, p3, f)

(***************************************************************************)
(* mesh.rs: Geometry                                                       *)
(***************************************************************************)
\* vertex indices are 0-based as in the source; sequences are 1-based
check_validity(g) ==
    IF Len(g.vertices) = 0 THEN FALSE
    ELSE IF \E f \in DOMAIN g.faces :
                \/ g.faces[f][1] >= Len(g.vertices)
                \/ g.faces[f][2] >= Len(g.vertices)
                \/ g.faces[f][3] >= Len(g.vertices)
    THEN FALSE
    ELSE IF \E l \in DOMAIN g.lines :
                g.lines[l][1] >= Len(g.vertices) \/ g.lines[l][2] >= Len(g.vertices)
    THEN FALSE
    ELSE IF Len(g.colors) # 0 /\ Len(g.colors) # Len(g.vertices) THEN FALSE
    ELSE TRUE

\* capacity of the FnvIndexSet and of the Vec that lines_from_faces returns
EDGE_CAPACITY == 512

\* FnvIndexSet::insert with its result dropped (`let _ = set.insert(edge)`):
\* a present edge and an edge offered to a full set both leave the set as it is.
\* The set is kept as the sequence of its entries in insertion order.
set_insert(entries, edge) ==
    IF \E i \in DOMAIN entries : entries[i] = edge THEN entries
    ELSE IF Len(entries) >= EDGE_CAPACITY THEN entries
    ELSE Append(entries, edge)

\* the undirected edge of (a, b): if a < b { (a, b) } else { (b, a) }
edge_of(a, b) == IF a < b THEN <<a, b>> ELSE <<b, a>>

\* the body of `for face in faces`: the face's three edges inserted in turn
insert_face(entries, face) ==
    set_insert(set_insert(set_insert(entries,
        edge_of(face[1], face[2])), edge_of(face[2], face[3])),
        edge_of(face[3], face[1]))

(***************************************************************************)
(* mesh.rs: K3dMesh.  An f32 is modelled by an integer, on the inputs for   *)
(* which the code's f32 arithmetic is exact: small integer positions and   *)
(* scales, the angle 0 (sin and cos of any other f32 angle are not         *)
(* integers, sin(PI) and cos(PI / 2) included), and look-at targets        *)
(* straight along z.  The operators are partial: outside these inputs      *)
(* they have no value.                                                     *)
(***************************************************************************)
NoMesh == [none |-> TRUE]
NoMatrix == <<>>

\* (angle * 0.5).cos() and (angle * 0.5).sin(), defined for the angle 0 only
CosHalf(angle) == CASE angle = 0 -> 1
SinHalf(angle) == CASE angle = 0 -> 0

\* UnitQuaternion::from_euler_angles(roll, pitch, yaw), as <<w, i, j, k>>
from_euler_angles(roll, pitch, yaw) ==
    LET sr == SinHalf(roll)
        cr == CosHalf(roll)
        sp == SinHalf(pitch)
        cp == CosHalf(pitch)
        sy == SinHalf(yaw)
        cy == CosHalf(yaw)
    IN  <<cr * cp * cy + sr * sp * sy,
          sr * cp * cy - cr * sp * sy,
          cr * sp * cy + sr * cp * sy,
          cr * cp * sy - sr * sp * cy>>

\* UnitQuaternion * UnitQuaternion (Hamilton product)
quat_mul(a, b) ==
    <<a[1] * b[1] - a[2] * b[2] - a[3] * b[3] - a[4] * b[4],
      a[1] * b[2] + a[2] * b[1] + a[3] * b[4] - a[4] * b[3],
      a[1] * b[3] - a[2] * b[4] + a[3] * b[1] + a[4] * b[2],
      a[1] * b[4] + a[2] * b[3] - a[3] * b[2] + a[4] * b[1]>>

\* PartialEq for UnitQuaternion: equal coordinates, or all coordinates negated
\* (q and -q are the same rotation)
quat_eq(a, b) == a = b \/ \A n \in 1..4 : a[n] = -b[n]

\* the rotation matrix of a unit quaternion, as three rows
rotation_matrix(q) ==
    LET w == q[1]
        i == q[2]
        j == q[3]
        k == q[4]
    IN  << <<w * w + i * i - j * j - k * k, 2 * (i * j - w * k), 2 * (i * k + w * j)>>,
           <<2 * (i * j + w * k), w * w - i * i + j * j - k * k, 2 * (j * k - w * i)>>,
           <<2 * (i * k - w * j), 2 * (j * k + w * i), w * w - i * i - j * j + k * k>> >>

\* rotation * vector
rotate_vector(q, v) ==
    LET r == rotation_matrix(q)
    IN  [n \in 1..3 |-> r[n][1] * v[1] + r[n][2] * v[2] + r[n][3] * v[3]]

\* Similarity3::to_homogeneous: the isometry's matrix with its 3x3 block scaled
to_homogeneous(sim) ==
    LET r == rotation_matrix(sim.rotation)
        s == sim.scaling
        t == sim.translation
    IN  << <<s * r[1][1], s * r[1][2], s * r[1][3], t[1]>>,
           <<s * r[2][1], s * r[2][2], s * r[2][3], t[2]>>,
           <<s * r[3][1], s * r[3][2], s * r[3][3], t[3]>>,
           <<0, 0, 0, 1>> >>

\* Similarity3::new(translation, zero axis-angle, scaling)
Similarity3_new(t, s) ==
    [translation |-> t, rotation |-> <<1, 0, 0, 0>>, scaling |-> s]

\* Similarity3::look_at_rh(eye, target, up = y, 1.0), defined only for a target
\* straight ahead of or behind the eye along z, where nalgebra's construction is
\* exact: looking down -z is the identity, looking down +z is the half turn
\* about y (returned as the inverse of <<0, 0, 1, 0>>); the translation is
\* rotation * (-eye).
look_at_rh(eye, target) ==
    LET q == CASE target[1] = eye[1] /\ target[2] = eye[2] /\ target[3] < eye[3] ->
                      <<1, 0, 0, 0>>
               [] target[1] = eye[1] /\ target[2] = eye[2] /\ target[3] > eye[3] ->
                      <<0, 0, -1, 0>>
    IN  [translation |-> rotate_vector(q, <<-eye[1], -eye[2], -eye[3]>>),
         rotation |-> q, scaling |-> 1]

\* K3dMesh::new, once the assert on check_validity has passed
K3dMesh_new(g) ==
    LET sim == Similarity3_new(<<0, 0, 0>>, 1)
    IN  [similarity |-> sim, model_matrix |-> to_homogeneous(sim),
         model_dirty |-> FALSE, color |-> "CSS_WHITE", render_mode |-> "Points",
         geometry |-> g]

\* impl Default for K3dMesh
K3dMesh_default ==
    LET g == [vertices |-> <<>>, faces |-> <<>>, colors |-> <<>>, lines |-> <<>>,
              normals |-> <<>>]
        sim == Similarity3_new(<<0, 0, 0>>, 1)
    IN  [similarity |-> sim, model_matrix |-> to_homogeneous(sim),
         model_dirty |-> FALSE, color |-> "CSS_WHITE", render_mode |-> "Points",
         geometry |-> g]

set_color(m, color) == [m EXCEPT !.color = color]

set_render_mode(m, mode) == [m EXCEPT !.render_mode = mode]

set_position(m, x, y, z) ==
    LET t == m.similarity.translation
    IN  IF t[1] # x \/ t[2] # y \/ t[3] # z
        THEN [m EXCEPT !.similarity.translation = <<x, y, z>>, !.model_dirty = TRUE]
        ELSE m

set_attitude(m, roll, pitch, yaw) ==
    LET new_rot == from_euler_angles(roll, pitch, yaw)
    IN  IF ~quat_eq(m.similarity.rotation, new_rot)
        THEN [m EXCEPT !.similarity.rotation = new_rot, !.model_dirty = TRUE]
        ELSE m

set_target(m, target) ==
    [m EXCEPT !.similarity = look_at_rh(m.similarity.translation, target),
              !.model_dirty = TRUE]

\* set_scale as it would be had the assignment of model_dirty been left out
set_scale_unflagged(m, s) ==
    IF s # 0 /\ m.similarity.scaling # s
    THEN [m EXCEPT !.similarity.scaling = s]
    ELSE m

set_scale(m, s) ==
    IF s # 0 /\ m.similarity.scaling # s
    THEN [m EXCEPT !.similarity.scaling = s, !.model_dirty = TRUE]
    ELSE m

translate(m, dx, dy, dz) ==
    IF dx # 0 \/ dy # 0 \/ dz # 0
    THEN [m EXCEPT !.similarity.translation = <<@[1] + dx, @[2] + dy, @[3] + dz>>,
                   !.model_dirty = TRUE]
    ELSE m

rotate(m, roll, pitch, yaw) ==
    LET additional_rot == from_euler_angles(roll, pitch, yaw)
    IN  [m EXCEPT !.similarity.rotation = quat_mul(@, additional_rot),
                  !.model_dirty = TRUE]

\* update_model_matrix: the mesh after the call, and whether the call composed
\* the matrix (took the branch that calls to_homogeneous)
update_model_matrix(m) ==
    IF m.model_dirty
    THEN [mesh |-> [m EXCEPT !.model_matrix = to_homogeneous(m.similarity),
                             !.model_dirty = FALSE],
          composed |-> TRUE]
    ELSE [mesh |-> m, composed |-> FALSE]

\* get_model_matrix: the mesh after the call, the matrix returned, and whether
\* the matrix was composed during the call
get_model_matrix(m) ==
    LET u == update_model_matrix(m)
    IN  [mesh |-> u.mesh, value |-> u.mesh.model_matrix, composed |-> u.composed]

(***************************************************************************)
(* Values of the variables a specification does not use.                   *)
(***************************************************************************)
NoLines == [returned |-> FALSE, edges |-> <<>>]

DrawIdle ==
    /\ fb = [w |-> 0, h |-> 0]
    /\ vertices = <<>>
    /\ pc = "idle"
    /\ cull = "none"
    /\ drawn = <<>>
    /\ row_hi = -1
    /\ span = 0
    /\ panic = "none"

MeshIdle ==
    /\ geometry = K3dMesh_default.geometry
    /\ mesh = NoMesh
    /\ op = "none"
    /\ ret = NoMatrix
    /\ composed = FALSE
    /\ ops = 0

EdgesIdle ==
    /\ faces = <<>>
    /\ set = <<>>
    /\ face_i = 1
    /\ lines = NoLines

(***************************************************************************)
(* SpecDraw: one draw call per behaviour.  The triangle and the            *)
(* framebuffer are drawn from bounded sets; DrawTriangle applies draw.     *)
(***************************************************************************)
CoordMax == 4
Margin == 1

Coords == (-Margin)..CoordMax
SmallFbs == {[w |-> 3, h |-> 3], [w |-> 5, h |-> 5], [w |-> 0, h |-> 4]}
SmallPoints == {Pt(px, py) : px \in Coords, py \in Coords}

\* framebuffers around the row capacity, and triangles that span them
WideXs == {0, MAX_ROW_WIDTH - 1, MAX_ROW_WIDTH, MAX_ROW_WIDTH + 1}
WideFbs == {[w |-> MAX_ROW_WIDTH + d, h |-> 3] : d \in 0..2}
WidePoints == {Pt(px, py) : px \in WideXs, py \in 0..2}

InitDraw ==
    /\ \/ /\ fb \in SmallFbs
          /\ vertices \in SmallPoints \X SmallPoints \X SmallPoints
       \/ /\ fb \in WideFbs
          /\ vertices \in WidePoints \X WidePoints \X WidePoints
    /\ pc = "call"
    /\ cull = "none"
    /\ drawn = <<>>
    /\ row_hi = -1
    /\ span = 0
    /\ panic = "none"
    /\ MeshIdle
    /\ EdgesIdle

DrawTriangle ==
    /\ pc = "call"
    /\ LET r == draw(vertices, fb)
       IN  /\ pc' = IF r.panic = "none" THEN "returned" ELSE "panicked"
           /\ cull' = r.cull
           /\ drawn' = r.drawn
           /\ row_hi' = r.row_hi
           /\ span' = r.span
           /\ panic' = r.panic
    /\ UNCHANGED <<fb, vertices, meshVars, edgeVars>>

NextDraw == DrawTriangle

SpecDraw == InitDraw /\ [][NextDraw]_vars

(***************************************************************************)
(* SpecNew: constructing a K3dMesh.  The geometry is drawn from a bounded  *)
(* set of well- and ill-formed geometries; New is K3dMesh::new(geometry)   *)
(* and Default is K3dMesh::default().                                      *)
(***************************************************************************)
MaxVerts == 2
MaxFaces == 1

Vertex == <<0, 0, 0>>
Indices == 0..MaxVerts

SeqsUpTo(S, n) == UNION {[1..k -> S] : k \in 0..n}

Geometries ==
    {[vertices |-> [i \in 1..nv |-> Vertex], faces |-> fs,
      colors |-> [i \in 1..nc |-> "CSS_WHITE"], lines |-> ls, normals |-> <<>>] :
        nv \in 0..MaxVerts, nc \in 0..MaxVerts,
        fs \in SeqsUpTo(Indices \X Indices \X Indices, MaxFaces),
        ls \in SeqsUpTo(Indices \X Indices, MaxFaces)}

InitNew ==
    /\ geometry \in Geometries
    /\ mesh = NoMesh
    /\ op = "none"
    /\ ret = NoMatrix
    /\ composed = FALSE
    /\ ops = 0
    /\ DrawIdle
    /\ EdgesIdle

\* K3dMesh::new(geometry): assert!(geometry.check_validity()) panics on an
\* invalid geometry, and no mesh is returned
New ==
    /\ op = "none"
    /\ IF check_validity(geometry)
       THEN mesh' = K3dMesh_new(geometry) /\ op' = "new"
       ELSE mesh' = NoMesh /\ op' = "new_panicked"
    /\ UNCHANGED <<geometry, ret, composed, ops, drawVars, edgeVars>>

\* K3dMesh::default()
Default ==
    /\ op = "none"
    /\ mesh' = K3dMesh_default
    /\ op' = "default"
    /\ UNCHANGED <<geometry, ret, composed, ops, drawVars, edgeVars>>

NextNew == New \/ Default

SpecNew == InitNew /\ [][NextNew]_vars

(***************************************************************************)
(* SpecMesh: a mesh built by K3dMesh::new over a valid geometry, then up   *)
(* to MaxOps calls of its methods with arguments from small sets.          *)
(***************************************************************************)
MaxOps == 5

UnitGeometry ==
    [vertices |-> <<Vertex, Vertex, Vertex>>, faces |-> << <<0, 1, 2>> >>,
     colors |-> <<>>, lines |-> <<>>, normals |-> <<>>]

PosValues == {0, 1}
Deltas == {<<0, 0, 0>>, <<1, 0, 0>>, <<0, -1, 0>>, <<0, 0, 1>>}
\* roll, pitch, yaw: the angles whose half-angle sine and cosine are exact
Angles == {<<0, 0, 0>>}
Scales == {0, 1, 2}
Colors == {"CSS_WHITE", "CSS_RED"}
RenderModes == {"Points", "Solid"}

InitMesh ==
    /\ geometry = UnitGeometry
    /\ mesh = K3dMesh_new(UnitGeometry)
    /\ op = "new"
    /\ ret = NoMatrix
    /\ composed = FALSE
    /\ ops = 0
    /\ DrawIdle
    /\ EdgesIdle

\* a method that returns nothing: the mesh after it, and its name
Call(name, m) ==
    /\ ops < MaxOps
    /\ mesh' = m
    /\ op' = name
    /\ ret' = NoMatrix
    /\ composed' = FALSE
    /\ ops' = ops + 1
    /\ UNCHANGED <<geometry, drawVars, edgeVars>>

SetColor == \E c \in Colors : Call("set_color", set_color(mesh, c))

SetRenderMode == \E r \in RenderModes : Call("set_render_mode", set_render_mode(mesh, r))

SetPosition ==
    \E x \in PosValues, y \in PosValues, z \in PosValues :
        Call("set_position", set_position(mesh, x, y, z))

SetAttitude ==
    \E a \in Angles : Call("set_attitude", set_attitude(mesh, a[1], a[2], a[3]))

SetTarget ==
    \E dz \in {-1, 1} :
        LET eye == mesh.similarity.translation
        IN  Call("set_target", set_target(mesh, <<eye[1], eye[2], eye[3] + dz>>))

SetScale == \E s \in Scales : Call("set_scale", set_scale(mesh, s))

Translate == \E d \in Deltas : Call("translate", translate(mesh, d[1], d[2], d[3]))

Rotate == \E a \in Angles : Call("rotate", rotate(mesh, a[1], a[2], a[3]))

GetModelMatrix ==
    /\ ops < MaxOps
    /\ LET r == get_model_matrix(mesh)
       IN  /\ mesh' = r.mesh
           /\ ret' = r.value
           /\ composed' = r.composed
    /\ op' = "get_model_matrix"
    /\ ops' = ops + 1
    /\ UNCHANGED <<geometry, drawVars, edgeVars>>

\* a direct call of the public update_model_matrix, which returns nothing
UpdateModelMatrix ==
    /\ ops < MaxOps
    /\ LET u == update_model_matrix(mesh)
       IN  /\ mesh' = u.mesh
           /\ composed' = u.composed
    /\ ret' = NoMatrix
    /\ op' = "update_model_matrix"
    /\ ops' = ops + 1
    /\ UNCHANGED <<geometry, drawVars, edgeVars>>

NextMesh ==
    \/ SetColor
    \/ SetRenderMode
    \/ SetPosition
    \/ SetAttitude
    \/ SetTarget
    \/ SetScale
    \/ Translate
    \/ Rotate
    \/ UpdateModelMatrix
    \/ GetModelMatrix

SpecMesh == InitMesh /\ [][NextMesh]_vars

(***************************************************************************)
(* SpecEdges: one lines_from_faces call per behaviour, a step per turn of   *)
(* its loop and one for its return, on short face lists                    *)
(* over a few vertices and on long strips of disjoint triangles that fill  *)
(* the edge set to around its capacity.                                    *)
(***************************************************************************)
SmallFaces == {<<a, b, c>> : a \in 0..2, b \in 0..2, c \in 0..2}

\* k triangles with no vertex in common: 3k distinct edges
Strip(k) == [i \in 1..k |-> <<3 * (i - 1), 3 * (i - 1) + 1, 3 * (i - 1) + 2>>]
StripLengths == {EDGE_CAPACITY \div 3 - 1, EDGE_CAPACITY \div 3, EDGE_CAPACITY \div 3 + 1}
\* faces over the strip's vertices adding 0, 2 or 3 edges to it
Tails == {<<>>, << <<0, 1, 2>> >>, << <<0, 1, 3>> >>, << <<0, 3, 6>> >>}

FaceLists ==
    SeqsUpTo(SmallFaces, 2) \cup {Strip(k) \o t : k \in StripLengths, t \in Tails}

\* let mut set = FnvIndexSet::new()
InitEdges ==
    /\ faces \in FaceLists
    /\ set = <<>>
    /\ face_i = 1
    /\ lines = NoLines
    /\ DrawIdle
    /\ MeshIdle

\* one turn of `for face in faces`
InsertFace ==
    /\ ~lines.returned
    /\ face_i <= Len(faces)
    /\ set' = insert_face(set, faces[face_i])
    /\ face_i' = face_i + 1
    /\ UNCHANGED <<faces, lines, drawVars, meshVars>>

\* set.into_iter().copied().collect(): the loop is over, the entries are returned
Collect ==
    /\ ~lines.returned
    /\ face_i > Len(faces)
    /\ lines' = [returned |-> TRUE, edges |-> set]
    /\ UNCHANGED <<faces, set, face_i, drawVars, meshVars>>

NextEdges == InsertFace \/ Collect

SpecEdges == InitEdges /\ [][NextEdges]_vars

(***************************************************************************)
(* What a finished draw call did, read off the recording framebuffer.      *)
(***************************************************************************)
DrawEnded == pc \in {"returned", "panicked"}

Sorted == sort_unstable_by_y(vertices)

\* the pixels one draw_iter call passed to the target
PixelsOf(d) == {Pt(px, d.y) : px \in d.start_x..d.end_x}

Written == UNION {PixelsOf(drawn[i]) : i \in DOMAIN drawn}

\* how many times pixel p was passed to the target during the call
WriteCount(p) == Cardinality({i \in DOMAIN drawn : p \in PixelsOf(drawn[i])})

\* how many draw_iter calls flushed scanline y
RowFlushes(y) == Cardinality({i \in DOMAIN drawn : drawn[i].y = y})

OnScreen(p) == 0 <= p.x /\ p.x < fb.w /\ 0 <= p.y /\ p.y < fb.h

\* the triangle's axis-aligned bounding box meets the rectangle (0,0)..fb size
BoxMeetsScreen ==
    LET xs == {vertices[i].x : i \in 1..3}
        ys == {vertices[i].y : i \in 1..3}
    IN  /\ fb.w > 0 /\ fb.h > 0
        /\ \E px \in xs : px <= fb.w - 1
        /\ \E px \in xs : px >= 0
        /\ \E py \in ys : py <= fb.h - 1
        /\ \E py \in ys : py >= 0

\* the triangle reflected left-to-right within the framebuffer: same shape,
\* winding reversed
Mirrored(v) == [i \in 1..3 |-> Pt(fb.w - 1 - v[i].x, v[i].y)]

Orders == {<<1, 2, 3>>, <<1, 3, 2>>, <<2, 1, 3>>, <<2, 3, 1>>, <<3, 1, 2>>, <<3, 2, 1>>}
Reorder(v, o) == <<v[o[1]], v[o[2]], v[o[3]]>>

(***************************************************************************)
(* C2.  fill_triangle never writes pixel_row at an index >= MAX_ROW_WIDTH; *)
(* a clamped span of exactly MAX_ROW_WIDTH pixels is drawn, and a wider    *)
(* clamped span ends the call with a RowCapacityExceeded error, not with   *)
(* an out-of-range index.                                                  *)
(***************************************************************************)
C2_RowCapacityReported ==
    DrawEnded =>
        /\ row_hi < MAX_ROW_WIDTH
        /\ (cull = "none" /\ span <= MAX_ROW_WIDTH => pc = "returned")
        /\ (span > MAX_ROW_WIDTH => panic = "RowCapacityExceeded")

(***************************************************************************)
(* C3.  Every pixel draw passes to the framebuffer target lies inside the  *)
(* framebuffer rectangle: 0 <= x < width and 0 <= y < height.              *)
(***************************************************************************)
C3_WritesInsideFramebuffer ==
    \A i \in DOMAIN drawn :
        /\ 0 <= drawn[i].start_x /\ drawn[i].end_x < fb.w
        /\ 0 <= drawn[i].y /\ drawn[i].y < fb.h

(***************************************************************************)
(* C4.  Drawing (0,0), (4,0), (0,4) on a framebuffer of at least 5x5       *)
(* writes exactly the pixels with x >= 0, y >= 0, x + y <= 4, each once.   *)
(***************************************************************************)
C4_ScanlineCoverage ==
    (/\ DrawEnded
     /\ vertices = <<Pt(0, 0), Pt(4, 0), Pt(0, 4)>>
     /\ fb.w >= 5 /\ fb.h >= 5)
    => /\ pc = "returned"
       /\ Written = {Pt(px, py) : px \in 0..4, py \in 0..4} \ 
                    {q \in {Pt(px, py) : px \in 0..4, py \in 0..4} : q.x + q.y > 4}
       /\ \A q \in Written : WriteCount(q) = 1

(***************************************************************************)
(* C8.  With p1, p2, p3 the y-sorted vertices: signed area <= 0 gives no   *)
(* pixel write; an on-screen triangle of positive signed area writes at    *)
(* least one pixel, and its mirror image writes none in whatever order its *)
(* vertices are passed.                                                    *)
(***************************************************************************)
C8_BackfaceCulling ==
    DrawEnded =>
        /\ (is_backfacing(Sorted[1], Sorted[2], Sorted[3]) => drawn = <<>>)
        /\ ((/\ \A i \in 1..3 : OnScreen(vertices[i])
             /\ ~is_backfacing(Sorted[1], Sorted[2], Sorted[3]))
            => /\ drawn # <<>>
               /\ \A o \in Orders :
                      draw(Reorder(Mirrored(vertices), o), fb).drawn = <<>>)

(***************************************************************************)
(* C9.  A triangle that passes the backface test reaches fill_triangle if  *)
(* and only if its bounding box over all three vertices meets the screen   *)
(* rectangle.                                                              *)
(***************************************************************************)
C9_ScreenBoundsCull ==
    (DrawEnded /\ cull # "backface") => (cull # "bounds" <=> BoxMeetsScreen)

(***************************************************************************)
(* C10.  For a triangle that is rasterized, the scanline y = p2.y is       *)
(* flushed exactly once, also when one half is flat and skipped.           *)
(***************************************************************************)
C10_BoundaryRowOnce ==
    (pc = "returned" /\ cull = "none") => RowFlushes(Sorted[2].y) = 1

(***************************************************************************)
(* Claims about mesh.rs.                                                   *)
(***************************************************************************)
\* the Geometry invariants of the data model, stated on the value itself
ValidGeometry(g) ==
    /\ Len(g.vertices) > 0
    /\ \A f \in DOMAIN g.faces : \A n \in 1..3 : g.faces[f][n] < Len(g.vertices)
    /\ \A l \in DOMAIN g.lines : \A n \in 1..2 : g.lines[l][n] < Len(g.vertices)
    /\ Len(g.colors) \in {0, Len(g.vertices)}

Identity == to_homogeneous(Similarity3_new(<<0, 0, 0>>, 1))

\* the model matrix is valid whenever the dirty flag is clear, and a
\* get_model_matrix call returns the matrix of the current similarity
CacheValid ==
    mesh # NoMesh =>
        /\ (~mesh.model_dirty => mesh.model_matrix = to_homogeneous(mesh.similarity))
        /\ (op = "get_model_matrix" =>
                /\ ret = to_homogeneous(mesh.similarity)
                /\ ~mesh.model_dirty)

\* get_model_matrix and update_model_matrix compose the matrix exactly when the
\* flag was set, and a second get_model_matrix right after a first returns the
\* same matrix without composing
ComposeOnlyWhenDirty ==
    /\ (op' \in {"get_model_matrix", "update_model_matrix"} =>
            (composed' <=> mesh.model_dirty))
    /\ (op = "get_model_matrix" /\ op' = "get_model_matrix" =>
            ret' = ret /\ ~composed')

(***************************************************************************)
(* C1.  The model-matrix cache is never stale: in every state reachable    *)
(* from K3dMesh::new through the setters, a clear dirty flag implies that  *)
(* model_matrix is the homogeneous matrix of the current similarity;       *)
(* get_model_matrix returns that matrix, leaves the flag clear, composes   *)
(* only when the flag was set, and called twice in a row returns the same  *)
(* matrix without composing again.                                         *)
(***************************************************************************)
C1_CacheNeverStale == []CacheValid /\ [][ComposeOnlyWhenDirty]_vars

\* a get_model_matrix call that found the flag set after a mutation and
\* returned a matrix other than the one the mesh was built with
C1_Witness ==
    /\ op = "get_model_matrix"
    /\ composed
    /\ ret # Identity
    /\ ret = to_homogeneous(mesh.similarity)

(***************************************************************************)
(* C5.  No K3dMesh is constructed over an invalid Geometry: every mesh a   *)
(* constructor (new, default) produced holds a valid geometry, and         *)
(* K3dMesh::new over an invalid geometry fails instead of returning one.   *)
(***************************************************************************)
C5_NoMeshOverInvalidGeometry ==
    /\ (mesh # NoMesh => ValidGeometry(mesh.geometry))
    /\ (op \in {"new", "new_panicked"} /\ ~ValidGeometry(geometry) => mesh = NoMesh)

(***************************************************************************)
(* C6.  set_position, set_attitude, set_scale, translate and rotate set    *)
(* model_dirty only if the similarity changed: a call that leaves the      *)
(* similarity as it was leaves model_dirty as it was.                      *)
(***************************************************************************)
C6_DirtyOnlyOnChange ==
    [][(/\ op' \in {"set_position", "set_attitude", "set_scale", "translate", "rotate"}
        /\ mesh'.similarity = mesh.similarity)
       => mesh'.model_dirty = mesh.model_dirty]_vars

\* the distinct undirected edges (min, max) of a face list
DistinctEdges(fs) ==
    {edge_of(fs[i][c[1]], fs[i][c[2]]) :
        i \in DOMAIN fs, c \in {<<1, 2>>, <<2, 3>>, <<3, 1>>}}

Occurrences(seq, e) == Cardinality({i \in DOMAIN seq : seq[i] = e})

(***************************************************************************)
(* C7.  lines_from_faces never silently loses an edge: a returned edge     *)
(* list holds every distinct undirected edge of every face exactly once,   *)
(* so more distinct edges than the capacity cannot come back as a list.    *)
(***************************************************************************)
C7_NoEdgeLost ==
    lines.returned =>
        /\ \A e \in DistinctEdges(faces) : Occurrences(lines.edges, e) = 1
        /\ \A i \in DOMAIN lines.edges : lines.edges[i] \in DistinctEdges(faces)

=============================================================================
